---- MODULE Spec2Model ----
(***************************************************************************)
(* mandelrust: interactive Mandelbrot explorer.                            *)
(*                                                                         *)
(* The model covers                                                        *)
(*   - the f64 arithmetic the program relies on, as a binary floating      *)
(*     point format with round-to-nearest-even, subnormals, infinities and *)
(*     NaN (precision and exponent range are scaled down, see the bounds), *)
(*   - u32 / i32 / u8 arithmetic with its width (scaled down likewise) and *)
(*     both build modes of integer overflow (panic / wrap),                *)
(*   - complex.rs, view.rs, the evaluators and draw_image of main.rs,      *)
(*   - the event loop of main (the controller).                            *)
(***************************************************************************)
EXTENDS Integers, Sequences, FiniteSets, TLC

(***************************************************************************)
(* Bounds of the model.                                                    *)
(***************************************************************************)
\* significand width of the modelled f64 (the real one has 53 bits)
Precision == 10
\* the smallest positive modelled f64 is 2^(-ExpMin) (the real one: 2^-1074)
ExpMin == 20
\* the largest modelled f64 is below 2^(ExpMax+1) (the real one: 2^1024)
ExpMax == 40
\* width in bits of the modelled u32 and i32 (the real ones have 32)
IntBits == 8
\* the pushing events followed by undo are explored on histories of up to
\* MaxUndoHistory views
MaxUndoHistory == 3
\* draw_image on its own is called on images of up to MaxDrawWidth by
\* MaxDrawHeight pixels
MaxDrawWidth == 2
MaxDrawHeight == 2
\* the controller's events are explored while the history has at most
\* MaxHistory views; beyond that only zoom-out (Key::A) and undo are, up to
\* MaxZoomOut views
MaxHistory == 2
MaxZoomOut == 32
\* sharpen and unsharpen are explored on views of sharpness up to MaxSharpness
MaxSharpness == 40
\* significand width of the modelled BigFloat: the precision asked for, 32
\* bits, is rounded upwards to the word size of the library, 64 bits, which is
\* wider than the significand of f64
BigFloatPrecision == 12

(***************************************************************************)
(* f64: a value is a record [k, m, e].                                     *)
(*   k = "fin": the number m * 2^e, in canonical form: -ExpMin <= e, and   *)
(*              |m| < 2^Precision, and |m| >= 2^(Precision-1) unless       *)
(*              e = -ExpMin (subnormal or zero);                           *)
(*   k = "inf": m = 1 for +infinity, m = -1 for -infinity;                 *)
(*   k = "nan".                                                            *)
(* The sign of zero is not modelled (no operation of the program observes  *)
(* it on a value it can produce).                                          *)
(***************************************************************************)
TwoP == 2 ^ Precision
HalfP == 2 ^ (Precision - 1)

Abs(n) == IF n < 0 THEN 0 - n ELSE n
Sgn(n) == IF n < 0 THEN 0 - 1 ELSE IF n > 0 THEN 1 ELSE 0
Min(a, b) == IF a <= b THEN a ELSE b
Max(a, b) == IF a >= b THEN a ELSE b

Fin(m, e) == [k |-> "fin", m |-> m, e |-> e]
Inf(s) == [k |-> "inf", m |-> s, e |-> 0]
NaN == [k |-> "nan", m |-> 0, e |-> 0]
Zero == Fin(0, 0 - ExpMin)

IsFin(x) == x.k = "fin"
IsInf(x) == x.k = "inf"
IsNaN(x) == x.k = "nan"
IsZero(x) == x.k = "fin" /\ x.m = 0
\* sign of a non-NaN value: -1, 0, 1
SignOf(x) == Sgn(x.m)

\* a / b rounded to the nearest integer, ties to even (a >= 0, b > 0)
RoundHalfEven(a, b) ==
    LET q == a \div b
        r == a % b
    IN  IF 2 * r < b THEN q
        ELSE IF 2 * r > b THEN q + 1
        ELSE q + (q % 2)

\* the f64 nearest to s * (a / b) * 2^e, for s in {-1, 1}, a >= 0, b > 0
RECURSIVE RoundTo(_, _, _, _)
RoundTo(s, a, b, e) ==
    IF a = 0 THEN Zero
    ELSE IF a \div b >= TwoP THEN RoundTo(s, a, 2 * b, e + 1)
    ELSE IF e < 0 - ExpMin THEN
        \* below the subnormal grid: a value under a quarter of the smallest
        \* positive one rounds to zero, any other is shifted onto the grid
        IF e < 0 - ExpMin - 1 /\ a \div b = 0 THEN Zero
        ELSE RoundTo(s, a, 2 * b, e + 1)
    ELSE IF a \div b < HalfP /\ e > 0 - ExpMin THEN RoundTo(s, 2 * a, b, e - 1)
    ELSE
        LET m == RoundHalfEven(a, b)
            m2 == IF m = TwoP THEN HalfP ELSE m
            e2 == IF m = TwoP THEN e + 1 ELSE e
        IN  IF m = 0 THEN Zero
            ELSE IF e2 + Precision - 1 > ExpMax THEN Inf(s)
            ELSE Fin(s * m2, e2)

(***************************************************************************)
(* f64 operators (IEEE 754: every result is the exact result rounded).     *)
(***************************************************************************)
\* x + y
F64Add(x, y) ==
    IF IsNaN(x) \/ IsNaN(y) THEN NaN
    ELSE IF IsInf(x) THEN (IF IsInf(y) /\ y.m # x.m THEN NaN ELSE x)
    ELSE IF IsInf(y) THEN y
    ELSE IF x.m = 0 THEN y
    ELSE IF y.m = 0 THEN x
    ELSE IF x.e - y.e > Precision + 2 THEN x
    ELSE IF y.e - x.e > Precision + 2 THEN y
    ELSE LET e == Min(x.e, y.e)
             n == x.m * 2 ^ (x.e - e) + y.m * 2 ^ (y.e - e)
         IN  RoundTo(Sgn(n), Abs(n), 1, e)

\* -x
F64Neg(x) == IF IsNaN(x) THEN NaN ELSE [x EXCEPT !.m = 0 - x.m]

\* x - y
F64Sub(x, y) == F64Add(x, F64Neg(y))

\* x * y
F64Mul(x, y) ==
    IF IsNaN(x) \/ IsNaN(y) THEN NaN
    ELSE IF IsInf(x) \/ IsInf(y) THEN
        (IF x.m = 0 \/ y.m = 0 THEN NaN ELSE Inf(Sgn(x.m) * Sgn(y.m)))
    ELSE RoundTo(Sgn(x.m) * Sgn(y.m), Abs(x.m) * Abs(y.m), 1, x.e + y.e)

\* x / y
F64Div(x, y) ==
    IF IsNaN(x) \/ IsNaN(y) THEN NaN
    ELSE IF IsInf(x) THEN (IF IsInf(y) THEN NaN
                           ELSE Inf(x.m * (IF y.m < 0 THEN 0 - 1 ELSE 1)))
    ELSE IF IsInf(y) THEN Zero
    ELSE IF y.m = 0 THEN (IF x.m = 0 THEN NaN ELSE Inf(Sgn(x.m)))
    ELSE RoundTo(Sgn(x.m) * Sgn(y.m), Abs(x.m), Abs(y.m), x.e - y.e)

\* x < y, x <= y, x > y, x == y (all false when either is NaN)
F64Lt(x, y) ==
    /\ ~IsNaN(x) /\ ~IsNaN(y)
    /\ IF IsInf(x) THEN x.m < 0 /\ ~(IsInf(y) /\ y.m < 0)
       ELSE IF IsInf(y) THEN y.m > 0
       ELSE F64Sub(x, y).m < 0
F64Eq(x, y) == ~IsNaN(x) /\ ~IsNaN(y) /\ x = y
F64Le(x, y) == F64Lt(x, y) \/ F64Eq(x, y)
F64Gt(x, y) == F64Lt(y, x)

\* the largest r in lo .. hi - 1 with r * r <= a (lo * lo <= a < hi * hi)
RECURSIVE ISqrt(_, _, _)
ISqrt(a, lo, hi) ==
    IF hi - lo <= 1 THEN lo
    ELSE LET mid == (lo + hi) \div 2
         IN  IF mid * mid <= a THEN ISqrt(a, mid, hi) ELSE ISqrt(a, lo, mid)

\* m * 2^e (m > 0) written with a significand of exactly Precision bits
RECURSIVE FullWidth(_, _)
FullWidth(m, e) == IF m >= HalfP THEN <<m, e>> ELSE FullWidth(2 * m, e - 1)

\* x.sqrt(), correctly rounded
F64Sqrt(x) ==
    IF IsNaN(x) THEN NaN
    ELSE IF x.m < 0 THEN NaN
    ELSE IF IsInf(x) \/ x.m = 0 THEN x
    ELSE LET \* x = n[1] * 2^n[2] with n[1] of exactly Precision bits
             n == FullWidth(x.m, x.e)
             \* x = a * 2^e2 with e2 even and a of more than 2 * Precision bits
             k == Precision + 2 + ((n[2] + Precision) % 2)
             a == n[1] * 2 ^ k
             e2 == n[2] - k
             r == ISqrt(a, 0, 2 ^ (Precision + 2))
             sticky == IF r * r < a THEN 1 ELSE 0
         IN  RoundTo(1, 2 * r + sticky, 2, e2 \div 2)

\* x.floor()
F64Floor(x) ==
    IF ~IsFin(x) \/ x.e >= 0 THEN x
    ELSE IF 0 - x.e > Precision THEN
        (IF x.m < 0 THEN Fin(0 - HalfP, 1 - Precision) ELSE Zero)
    ELSE LET q == x.m \div (2 ^ (0 - x.e))
         IN  IF q = 0 THEN Zero ELSE RoundTo(Sgn(q), Abs(q), 1, 0)

(***************************************************************************)
(* Integers of the program: u32 and i32 have IntBits bits, u8 has 8.       *)
(***************************************************************************)
U32Modulus == 2 ^ IntBits
U32Max == U32Modulus - 1
U8Max == 255

\* n as f64, for an integer n (u32 as f64, i32 as f64)
IntToF64(n) == IF n = 0 THEN Zero ELSE RoundTo(Sgn(n), Abs(n), 1, 0)

\* x as an unsigned integer of maximum max (f64 as u32, f64 as u8): the
\* saturating cast of Rust: NaN -> 0, truncation toward zero, clamped
F64ToUnsigned(x, max) ==
    IF IsNaN(x) THEN 0
    ELSE IF x.m <= 0 THEN 0
    ELSE IF IsInf(x) THEN max
    ELSE IF x.e >= 0 THEN
        (IF x.e > IntBits + 8 THEN max ELSE Min(max, x.m * 2 ^ x.e))
    ELSE IF 0 - x.e > Precision THEN 0
    ELSE Min(max, x.m \div (2 ^ (0 - x.e)))

\* u as i32, for a u32 u (reinterpretation of the bits: two's complement)
U32AsI32(u) == IF u >= U32Modulus \div 2 THEN u - U32Modulus ELSE u

\* a - b and a + b on u32: whether they overflow, and the wrapped result a
\* build without overflow checks computes
U32SubOverflows(a, b) == a < b
U32WrappingSub(a, b) == (a - b) % U32Modulus
U32AddOverflows(a, b) == a + b > U32Max
U32WrappingAdd(a, b) == (a + b) % U32Modulus

\* a.abs_diff(b)
AbsDiff(a, b) == IF a >= b THEN a - b ELSE b - a

(***************************************************************************)
(* settings.rs (not among the sources): the configuration constants.       *)
(***************************************************************************)
WIDTH == 4
HEIGHT == 2
STEP_SIZE == IntToF64(100)
ZOOM_STEP_SIZE == IntToF64(2)
FUNCTION == "MANDELBROT"
Functions == {"CIRCLE", "MANDELBROT"}

(***************************************************************************)
(* complex.rs                                                              *)
(***************************************************************************)
Complex(r, i) == [r |-> r, i |-> i]

ComplexNorm(c) ==
    F64Sqrt(F64Add(F64Mul(c.r, c.r), F64Mul(c.i, c.i)))

ComplexAdd(a, b) == Complex(F64Add(a.r, b.r), F64Add(a.i, b.i))

ComplexMul(a, b) ==
    Complex(F64Sub(F64Mul(a.r, b.r), F64Mul(a.i, b.i)),
            F64Add(F64Mul(a.r, b.i), F64Mul(a.i, b.r)))

(***************************************************************************)
(* view.rs                                                                 *)
(***************************************************************************)
View(r, i, zoom, sharpness) ==
    [r |-> r, i |-> i, zoom |-> zoom, sharpness |-> sharpness]

pixel_to_complex(self, canvas_size, pixel) ==
    LET width == canvas_size[1]
        height == canvas_size[2]
        x == pixel[1]
        y == pixel[2]
    IN  Complex(
          F64Add(F64Div(F64Sub(IntToF64(x), F64Div(IntToF64(width), IntToF64(2))),
                        self.zoom),
                 self.r),
          F64Add(F64Div(F64Sub(F64Div(IntToF64(height), IntToF64(2)), IntToF64(y)),
                        self.zoom),
                 self.i))

step_left(self) == [self EXCEPT !.r = F64Sub(self.r, F64Div(STEP_SIZE, self.zoom))]

step_right(self) == [self EXCEPT !.r = F64Add(self.r, F64Div(STEP_SIZE, self.zoom))]

step_up(self) == [self EXCEPT !.i = F64Add(self.i, F64Div(STEP_SIZE, self.zoom))]

\* fault model: step_down pasted from step_left, the field not renamed
step_down_on_r(self) ==
    [self EXCEPT !.r = F64Sub(self.r, F64Div(STEP_SIZE, self.zoom))]

step_down(self) == [self EXCEPT !.i = F64Sub(self.i, F64Div(STEP_SIZE, self.zoom))]

step_zoom_in(self) == [self EXCEPT !.zoom = F64Mul(self.zoom, ZOOM_STEP_SIZE)]

step_zoom_out(self) == [self EXCEPT !.zoom = F64Div(self.zoom, ZOOM_STEP_SIZE)]

zoom_by(self, zoom_factor) == [self EXCEPT !.zoom = F64Mul(self.zoom, zoom_factor)]

\* self.sharpness + 10: when it overflows, a build with overflow checks
\* panics and a build without wraps
sharpen_overflows(self) == U32AddOverflows(self.sharpness, 10)

sharpen(self) == [self EXCEPT !.sharpness = U32WrappingAdd(self.sharpness, 10)]

\* self.sharpness - 10, likewise
unsharpen_overflows(self) == U32SubOverflows(self.sharpness, 10)

unsharpen(self) == [self EXCEPT !.sharpness = U32WrappingSub(self.sharpness, 10)]

center_on(self, c) == [self EXCEPT !.r = c.r, !.i = c.i]

(***************************************************************************)
(* main.rs: the evaluators and the color mapping                           *)
(***************************************************************************)
\* d of circle
circle_d(c) == F64Sqrt(F64Add(F64Mul(c.r, c.r), F64Mul(c.i, c.i)))

\* iterations - d.floor() as u32 overflows: a build with overflow checks
\* panics there, a build without wraps
circle_overflows(c, iterations) ==
    LET d == circle_d(c)
    IN  /\ ~F64Le(d, IntToF64(1))
        /\ U32SubOverflows(iterations, F64ToUnsigned(F64Floor(d), U32Max))

circle(c, iterations) ==
    LET d == circle_d(c)
    IN  IF F64Le(d, IntToF64(1)) THEN 0 - 1
        ELSE U32AsI32(U32WrappingSub(iterations,
                                     F64ToUnsigned(F64Floor(d), U32Max)))

\* the loop of mandelbrot_naive from step i on, z the value before the step
RECURSIVE mandelbrot_naive_loop(_, _, _, _)
mandelbrot_naive_loop(z, c, i, iterations) ==
    IF i >= iterations THEN 0 - 1
    ELSE LET z1 == ComplexAdd(ComplexMul(z, z), c)
         IN  IF F64Gt(ComplexNorm(z1), IntToF64(2)) THEN U32AsI32(i)
             ELSE mandelbrot_naive_loop(z1, c, i + 1, iterations)

mandelbrot_naive(c, iterations) ==
    mandelbrot_naive_loop(Complex(Zero, Zero), c, 0, iterations)

\* the loop of mandelbrot_optimized from step i on
RECURSIVE mandelbrot_optimized_loop(_, _, _, _, _, _, _)
mandelbrot_optimized_loop(x, y, x2, y2, c, i, iterations) ==
    IF i >= iterations THEN 0 - 1
    ELSE LET y1 == F64Add(F64Mul(F64Add(x, x), y), c.i)
             x1 == F64Add(F64Sub(x2, y2), c.r)
             x21 == F64Mul(x1, x1)
             y21 == F64Mul(y1, y1)
         IN  IF F64Gt(F64Add(x21, y21), IntToF64(4)) THEN U32AsI32(i)
             ELSE mandelbrot_optimized_loop(x1, y1, x21, y21, c, i + 1, iterations)

mandelbrot_optimized(c, iterations) ==
    mandelbrot_optimized_loop(Zero, Zero, Zero, Zero, c, 0, iterations)

\* a Color is the sequence of its four channels
z_to_color(z, steps) ==
    IF z = 0 - 1 THEN <<0, 0, 0, 255>>
    ELSE LET red == F64ToUnsigned(
                      F64Mul(F64Div(IntToF64(255), IntToF64(steps)), IntToF64(z)),
                      U8Max)
         IN  <<red, 0, 0, 255>>

(***************************************************************************)
(* all_between.rs                                                          *)
(***************************************************************************)
\* self.all_between(other): the half-open range from the smaller to the larger
all_between(self, other) ==
    IF self <= other THEN self .. (other - 1) ELSE other .. (self - 1)

(***************************************************************************)
(* main.rs: the state of main                                              *)
(***************************************************************************)
VARIABLES
    views,            \* the NonEmpty<View> navigation history
    base_canvas,      \* the image drawn from the current view
    overlay,          \* the image with the drag rectangle
    canvas,           \* which of the two the window shows
    mouse_position,   \* last cursor position
    press_position,   \* Some(position of the left press) or None
    e,                \* the event of the current loop iteration
    pc,               \* "running", "exited" (break / window closed), "panicked"
    \* a call of a function of the program on its own
    input,            \* the arguments of the call
    output,           \* what the call returned (or that it panicked)
    par               \* the parallel iterator of a draw_image call in progress

mainVars == <<views, base_canvas, overlay, canvas, mouse_position,
              press_position, e, pc>>

\* a cursor position is a pair of f32; the model has them in half pixels:
\* <<hx, hy>> is the position (hx / 2, hy / 2)
MousePositions == {<<0, 0>>, <<1, 0>>, <<6, 2>>, <<2 * WIDTH, 0>>}

\* position.0 as u32, position.1 as u32 (the cast truncates and saturates)
AsPixel(position) ==
    <<IF position[1] < 0 THEN 0 ELSE Min(U32Max, position[1] \div 2),
      IF position[2] < 0 THEN 0 ELSE Min(U32Max, position[2] \div 2)>>

None == <<>>
Some(position) == <<position>>

\* input and output while no function is called on its own
NoCall == [op |-> "none"]
callVars == <<input, output, par>>

Last(seq) == seq[Len(seq)]

\* fault model: a push that inserts at the front
push_front(vs, v) == <<v>> \o vs

\* NonEmpty::push and NonEmpty::pop (pop leaves the head in place)
push(vs, v) == Append(vs, v)

\* fault model: a pop without the floor, which removes the only view too
pop_unguarded(vs) == SubSeq(vs, 1, Len(vs) - 1)

pop(vs) == IF Len(vs) > 1 THEN SubSeq(vs, 1, Len(vs) - 1) ELSE vs

\* the evaluator main selects
Evaluate(f, c, iterations) ==
    IF f = "CIRCLE" THEN circle(c, iterations)
    ELSE mandelbrot_optimized(c, iterations)

\* draw_image overflows (and panics in a build with overflow checks) when
\* the evaluator overflows on one of the pixels
draw_image_overflows(view, width, height, f) ==
    /\ f = "CIRCLE"
    /\ \E x \in 0 .. (width - 1), y \in 0 .. (height - 1) :
          circle_overflows(pixel_to_complex(view, <<width, height>>, <<x, y>>),
                           view.sharpness)

\* the image draw(view) returns. The controller keeps an image as the
\* arguments it was drawn from; its pixels are those of draw_image.
draw(view) == [width |-> WIDTH, height |-> HEIGHT, view |-> view]

InitialView ==
    View(F64Div(IntToF64(0 - 3), IntToF64(4)), Zero, IntToF64(300), 30)

MainInit ==
    /\ views = <<InitialView>>
    /\ base_canvas = draw(InitialView)
    /\ overlay = [base |-> draw(InitialView), painted |-> {}]
    /\ canvas = "base_canvas"
    /\ mouse_position = <<0, 0>>
    /\ press_position = None
    /\ e = [kind |-> "none", button |-> "none"]
    /\ pc = "running"
    /\ input = NoCall
    /\ output = NoCall
    /\ par = NoCall

(***************************************************************************)
(* main.rs: the event loop. One action per handler; every action is one    *)
(* iteration of `while let Some(e) = window.next()`.                       *)
(***************************************************************************)
Running == pc = "running"

KeyEvent(key) == [kind |-> "release", button |-> key]

\* base_canvas = draw(views.last()); canvas = &base_canvas;
\* (views' is the history the handler has built)
Redraw ==
    \/ /\ draw_image_overflows(Last(views'), WIDTH, HEIGHT, FUNCTION)
       /\ pc' = "panicked"
       /\ UNCHANGED <<base_canvas, canvas>>
    \/ /\ pc' = "running"
       /\ base_canvas' = draw(Last(views'))
       /\ canvas' = "base_canvas"

\* the handlers of the keys that push a transformed view
NavigationKey(key, view) ==
    /\ Running
    /\ press_position = None
    /\ e' = KeyEvent(key)
    /\ views' = push(views, view)
    /\ Redraw
    /\ UNCHANGED <<overlay, mouse_position, press_position>>

ReleaseLeft == NavigationKey("Left", step_left(Last(views)))

ReleaseRight == NavigationKey("Right", step_right(Last(views)))

ReleaseUp == NavigationKey("Up", step_up(Last(views)))

ReleaseDown == NavigationKey("Down", step_down(Last(views)))

ReleaseZ == NavigationKey("Z", step_zoom_in(Last(views)))

ReleaseA == NavigationKey("A", step_zoom_out(Last(views)))

\* Key::X and Key::S replace the current view, unless it is the only one
ReplaceLast(vs, new_view) ==
    push(IF Len(vs) > 1 THEN pop(vs) ELSE vs, new_view)

SharpnessKey(key, overflows, new_view) ==
    /\ Running
    /\ press_position = None
    /\ e' = KeyEvent(key)
    /\ \/ /\ overflows
          /\ pc' = "panicked"
          /\ UNCHANGED <<views, base_canvas, canvas>>
       \/ /\ views' = ReplaceLast(views, new_view)
          /\ Redraw
    /\ UNCHANGED <<overlay, mouse_position, press_position>>

ReleaseX ==
    SharpnessKey("X", sharpen_overflows(Last(views)), sharpen(Last(views)))

ReleaseS ==
    SharpnessKey("S", unsharpen_overflows(Last(views)),
                 unsharpen(Last(views)))

\* a fault: undo does not draw the view it returns to
ReleaseBackspaceStale ==
    /\ Running
    /\ press_position = None
    /\ e' = KeyEvent("Backspace")
    /\ views' = pop(views)
    /\ UNCHANGED <<base_canvas, canvas, pc, overlay, mouse_position,
                   press_position>>

ReleaseBackspace ==
    /\ Running
    /\ press_position = None
    /\ e' = KeyEvent("Backspace")
    /\ views' = pop(views)
    /\ Redraw
    /\ UNCHANGED <<overlay, mouse_position, press_position>>

ReleaseQ ==
    /\ Running
    /\ press_position = None
    /\ e' = KeyEvent("Q")
    /\ pc' = "exited"
    /\ UNCHANGED <<views, base_canvas, overlay, canvas, mouse_position,
                   press_position>>

\* fault model: a diagnostic key whose handler was pasted from Backspace
DiagnosticKeyPops(key) ==
    /\ Running
    /\ press_position = None
    /\ e' = KeyEvent(key)
    /\ views' = pop(views)
    /\ Redraw
    /\ UNCHANGED <<overlay, mouse_position, press_position>>

\* Key::F1 prints the zoom and the sharpness, Key::F2 prints the precision
\* audit: neither assigns a variable of main
DiagnosticKey(key) ==
    /\ Running
    /\ press_position = None
    /\ e' = KeyEvent(key)
    /\ UNCHANGED <<views, base_canvas, overlay, canvas, mouse_position,
                   press_position, pc>>

ReleaseF1 == DiagnosticKey("F1")

ReleaseF2 == DiagnosticKey("F2")

\* a key released while press_position is set: the keyboard block is skipped
Keys == {"Left", "Right", "Up", "Down", "Z", "A", "X", "S", "Backspace", "Q",
         "F1", "F2"}

\* a fault: Backspace is handled although press_position is set
ReleaseKeyWhilePressedUndoes ==
    /\ Running
    /\ press_position # None
    /\ e' = KeyEvent("Backspace")
    /\ views' = pop(views)
    /\ Redraw
    /\ UNCHANGED <<overlay, mouse_position, press_position>>

ReleaseKeyWhilePressed ==
    /\ Running
    /\ press_position # None
    /\ \E key \in Keys : e' = KeyEvent(key)
    /\ UNCHANGED <<views, base_canvas, overlay, canvas, mouse_position,
                   press_position, pc>>

\* e.press_args() is the left mouse button
PressMouseLeft ==
    /\ Running
    /\ e' = [kind |-> "press", button |-> "MouseLeft"]
    /\ press_position' = Some(mouse_position)
    /\ UNCHANGED <<views, base_canvas, overlay, canvas, mouse_position, pc>>

\* fault model: the zoom box with the larger of the two factors
zoom_box_largest(view, width, height, base_pos, position) ==
    LET x1 == AsPixel(base_pos)[1]
        y1 == AsPixel(base_pos)[2]
        x2 == AsPixel(position)[1]
        y2 == AsPixel(position)[2]
        new_center == pixel_to_complex(view, <<width, height>>,
                        <<U32WrappingAdd(x1, x2) \div 2,
                          U32WrappingAdd(y1, y2) \div 2>>)
        zoom_factor_x == F64Div(IntToF64(width), IntToF64(AbsDiff(x1, x2)))
        zoom_factor_y == F64Div(IntToF64(height), IntToF64(AbsDiff(y1, y2)))
        zoom_factor == IF F64Le(zoom_factor_x, zoom_factor_y)
                       THEN zoom_factor_y ELSE zoom_factor_x
    IN  zoom_by(center_on(view, new_center), zoom_factor)

\* the view the drag from base_pos to position pushes (the zoom box)
zoom_box(view, width, height, base_pos, position) ==
    LET x1 == AsPixel(base_pos)[1]
        y1 == AsPixel(base_pos)[2]
        x2 == AsPixel(position)[1]
        y2 == AsPixel(position)[2]
        selected_width == AbsDiff(x1, x2)
        selected_height == AbsDiff(y1, y2)
        new_center == pixel_to_complex(view, <<width, height>>,
                        <<U32WrappingAdd(x1, x2) \div 2,
                          U32WrappingAdd(y1, y2) \div 2>>)
        zoom_factor_x == F64Div(IntToF64(width), IntToF64(selected_width))
        zoom_factor_y == F64Div(IntToF64(height), IntToF64(selected_height))
        zoom_factor == IF F64Le(zoom_factor_x, zoom_factor_y)
                       THEN zoom_factor_x ELSE zoom_factor_y
    IN  zoom_by(center_on(view, new_center), zoom_factor)

\* x1 + x2 or y1 + y2 overflows
zoom_box_overflows(base_pos, position) ==
    \/ U32AddOverflows(AsPixel(base_pos)[1], AsPixel(position)[1])
    \/ U32AddOverflows(AsPixel(base_pos)[2], AsPixel(position)[2])

\* the left button released on the position it was pressed on: recenter
ReleaseMouseLeftClick ==
    /\ Running
    /\ press_position = Some(mouse_position)
    /\ e' = KeyEvent("MouseLeft")
    /\ LET c == pixel_to_complex(Last(views), <<WIDTH, HEIGHT>>,
                                 AsPixel(mouse_position))
       IN  views' = push(views, center_on(Last(views), c))
    /\ Redraw
    /\ press_position' = IF pc' = "panicked" THEN press_position ELSE None
    /\ UNCHANGED <<overlay, mouse_position>>

\* the left button released elsewhere: zoom box
ReleaseMouseLeftDrag ==
    /\ Running
    /\ press_position # None
    /\ press_position # Some(mouse_position)
    /\ e' = KeyEvent("MouseLeft")
    /\ \/ /\ zoom_box_overflows(press_position[1], mouse_position)
          /\ pc' = "panicked"
          /\ UNCHANGED <<views, base_canvas, canvas, press_position>>
       \/ /\ views' = push(views, zoom_box(Last(views), WIDTH, HEIGHT,
                                           press_position[1], mouse_position))
          /\ Redraw
          /\ press_position' = IF pc' = "panicked" THEN press_position
                               ELSE None
    /\ UNCHANGED <<overlay, mouse_position>>

\* the left button released with no press recorded: neither branch is taken
ReleaseMouseLeftIdle ==
    /\ Running
    /\ press_position = None
    /\ e' = KeyEvent("MouseLeft")
    /\ UNCHANGED <<views, base_canvas, overlay, canvas, mouse_position,
                   press_position, pc>>

\* the right button released: recenter and zoom out, unless a drag is on
ReleaseMouseRight ==
    /\ Running
    /\ e' = KeyEvent("MouseRight")
    /\ IF press_position = None
       THEN /\ LET c == pixel_to_complex(Last(views), <<WIDTH, HEIGHT>>,
                                         AsPixel(mouse_position))
               IN  views' = push(views,
                                 step_zoom_out(center_on(Last(views), c)))
            /\ Redraw
       ELSE UNCHANGED <<views, base_canvas, canvas, pc>>
    /\ UNCHANGED <<overlay, mouse_position, press_position>>

\* the put_pixel calls that draw the rectangle, in order
rectangle_calls(x1, y1, x2, y2) ==
    LET xlo == Min(x1, x2)
        ylo == Min(y1, y2)
        nx == Cardinality(all_between(x1, x2))
        ny == Cardinality(all_between(y1, y2))
    IN  [k \in 1 .. 2 * nx |->
            <<xlo + (k - 1) \div 2, IF k % 2 = 1 THEN y1 ELSE y2>>]
        \o
        [k \in 1 .. 2 * ny |->
            <<IF k % 2 = 1 THEN x1 ELSE x2, ylo + (k - 1) \div 2>>]

\* ImageBuffer::put_pixel panics on a pixel outside the image
InImage(pixel, width, height) == pixel[1] < width /\ pixel[2] < height

\* e.mouse_cursor_args(): the cursor moved to position
MouseCursor(position) ==
    /\ Running
    /\ e' = [kind |-> "cursor", button |-> "none"]
    /\ mouse_position' = position
    /\ IF press_position # None /\ press_position # Some(position)
       THEN LET p1 == AsPixel(press_position[1])
                p2 == AsPixel(position)
                calls == rectangle_calls(p1[1], p1[2], p2[1], p2[2])
                bad == {k \in DOMAIN calls : ~InImage(calls[k], WIDTH, HEIGHT)}
                stop == IF bad = {} THEN Len(calls) + 1
                        ELSE CHOOSE k \in bad : \A j \in bad : k <= j
            IN  /\ overlay' = [base |-> base_canvas,
                               painted |-> {calls[k] : k \in 1 .. (stop - 1)}]
                /\ IF bad = {}
                   THEN canvas' = "overlay" /\ pc' = pc
                   ELSE canvas' = canvas /\ pc' = "panicked"
       ELSE UNCHANGED <<overlay, canvas, pc>>
    /\ UNCHANGED <<views, base_canvas, press_position>>

\* window.next() returns None: the window was closed
WindowClosed ==
    /\ Running
    /\ e' = [kind |-> "closed", button |-> "none"]
    /\ pc' = "exited"
    /\ UNCHANGED <<views, base_canvas, overlay, canvas, mouse_position,
                   press_position>>

\* an iteration of the loop of main
MainStep(Handler) == Handler /\ UNCHANGED callVars

\* the histories explored: an event that pushes is taken on a history of
\* fewer than MaxHistory views
MayPush == Len(views) < MaxHistory

\* the sharpness explored: X is taken below MaxSharpness, S up to it
MaySharpen(max) ==
    /\ Len(views) = 1 => MayPush
    /\ Last(views).sharpness <= max

MainNext ==
    \/ MainStep(MayPush /\ ReleaseLeft)
    \/ MainStep(MayPush /\ ReleaseRight)
    \/ MainStep(MayPush /\ ReleaseUp)
    \/ MainStep(MayPush /\ ReleaseDown)
    \/ MainStep(MayPush /\ ReleaseZ)
    \/ MainStep(MayPush /\ ReleaseA)
    \/ MainStep(MaySharpen(MaxSharpness - 1) /\ ReleaseX)
    \/ MainStep(MaySharpen(MaxSharpness) /\ ReleaseS)
    \/ MainStep(ReleaseBackspace)
    \/ MainStep(ReleaseQ)
    \/ MainStep(ReleaseF1)
    \/ MainStep(ReleaseF2)
    \/ MainStep(ReleaseKeyWhilePressed)
    \/ MainStep(PressMouseLeft)
    \/ MainStep(MayPush /\ ReleaseMouseLeftClick)
    \/ MainStep(MayPush /\ ReleaseMouseLeftDrag)
    \/ MainStep(ReleaseMouseLeftIdle)
    \/ MainStep((press_position = None => MayPush) /\ ReleaseMouseRight)
    \/ MainStep(\E position \in MousePositions : MouseCursor(position))
    \/ MainStep(WindowClosed)

vars == <<mainVars, callVars>>

Spec == MainInit /\ [][MainNext]_vars

\* the events that change the zoom and undo, explored up to MaxZoomOut views
MayZoom == Len(views) < MaxZoomOut

ZoomNext ==
    \/ MainStep(MayPush /\ ReleaseZ)
    \/ MainStep(MayZoom /\ ReleaseA)
    \/ MainStep(ReleaseBackspace)
    \/ MainStep(MayPush /\ ReleaseMouseRight)

SpecZoom == MainInit /\ [][ZoomNext]_vars

\* the events that push a view and undo, explored up to MaxUndoHistory views,
\* with the cursor on two pixels
MayPushUndone == Len(views) < MaxUndoHistory

HistoryPositions == {<<0, 0>>, <<6, 2>>}

HistoryNext ==
    \/ MainStep(MayPushUndone /\ ReleaseLeft)
    \/ MainStep(MayPushUndone /\ ReleaseRight)
    \/ MainStep(MayPushUndone /\ ReleaseUp)
    \/ MainStep(MayPushUndone /\ ReleaseDown)
    \/ MainStep(MayPushUndone /\ ReleaseZ)
    \/ MainStep(MayPushUndone /\ ReleaseA)
    \/ MainStep(ReleaseBackspace)
    \/ MainStep(PressMouseLeft)
    \/ MainStep(MayPushUndone /\ ReleaseMouseLeftClick)
    \/ MainStep(MayPushUndone /\ ReleaseMouseLeftDrag)
    \/ MainStep(MayPushUndone /\ press_position = None /\ ReleaseMouseRight)
    \/ MainStep(\E position \in HistoryPositions : MouseCursor(position))

SpecHistory == MainInit /\ [][HistoryNext]_vars

(***************************************************************************)
(* The functions of view.rs and the evaluators of main.rs called on their  *)
(* own, on arguments drawn from bounded sets.                              *)
(***************************************************************************)
\* n / d as f64
Ratio(n, d) == F64Div(IntToF64(n), IntToF64(d))

\* main stays in its initial state while a function is called on its own
MainIdle ==
    /\ views = <<InitialView>>
    /\ base_canvas = draw(InitialView)
    /\ overlay = [base |-> draw(InitialView), painted |-> {}]
    /\ canvas = "base_canvas"
    /\ mouse_position = <<0, 0>>
    /\ press_position = None
    /\ e = [kind |-> "none", button |-> "none"]
    /\ pc = "running"

Returned(op, value) == [op |-> op, panicked |-> FALSE, value |-> value]
Panicked(op) == [op |-> op, panicked |-> TRUE, value |-> 0]

\* the views the transforms are called on
ViewInputs ==
    {View(r, i, zoom, sharpness) :
        r \in {Ratio(0 - 3, 4), Ratio(1, 3)},
        i \in {Zero, Ratio(0 - 1, 300)},
        zoom \in {IntToF64(300), Ratio(1, 300), Zero, Inf(1)},
        sharpness \in {0, 5, 30, U32Max}}

PointInputs == {Complex(Zero, Zero), Complex(Ratio(1, 3), Ratio(0 - 2, 1)),
                Complex(NaN, Inf(1))}

FactorInputs == {IntToF64(1), Ratio(4, 3), Inf(1)}

ViewInit ==
    /\ MainIdle
    /\ input \in [view : ViewInputs, c : PointInputs, zoom_factor : FactorInputs]
    /\ output = NoCall
    /\ par = NoCall

CallStepLeft == output' = Returned("step_left", step_left(input.view))

CallStepRight == output' = Returned("step_right", step_right(input.view))

CallStepUp == output' = Returned("step_up", step_up(input.view))

CallStepDown == output' = Returned("step_down", step_down(input.view))

CallStepZoomIn == output' = Returned("step_zoom_in", step_zoom_in(input.view))

CallStepZoomOut == output' = Returned("step_zoom_out", step_zoom_out(input.view))

CallZoomBy ==
    output' = Returned("zoom_by", zoom_by(input.view, input.zoom_factor))

CallSharpen ==
    \/ /\ sharpen_overflows(input.view)
       /\ output' = Panicked("sharpen")
    \/ output' = Returned("sharpen", sharpen(input.view))

CallUnsharpen ==
    \/ /\ unsharpen_overflows(input.view)
       /\ output' = Panicked("unsharpen")
    \/ output' = Returned("unsharpen", unsharpen(input.view))

CallCenterOn == output' = Returned("center_on", center_on(input.view, input.c))

\* a call of a function on input
Call(Returns) == Returns /\ UNCHANGED <<mainVars, input, par>>

ViewNext ==
    \/ Call(CallStepLeft)
    \/ Call(CallStepRight)
    \/ Call(CallStepUp)
    \/ Call(CallStepDown)
    \/ Call(CallStepZoomIn)
    \/ Call(CallStepZoomOut)
    \/ Call(CallZoomBy)
    \/ Call(CallSharpen)
    \/ Call(CallUnsharpen)
    \/ Call(CallCenterOn)

SpecView == ViewInit /\ [][ViewNext]_vars

\* a step of View followed by the opposite step
PairInit ==
    /\ MainIdle
    /\ input \in [view : ViewInputs]
    /\ output = NoCall
    /\ par = NoCall

CallLeftRight ==
    output' = Returned("step_left.step_right",
                       step_right(step_left(input.view)))

CallRightLeft ==
    output' = Returned("step_right.step_left",
                       step_left(step_right(input.view)))

CallUpDown ==
    output' = Returned("step_up.step_down", step_down(step_up(input.view)))

CallZoomInOut ==
    output' = Returned("step_zoom_in.step_zoom_out",
                       step_zoom_out(step_zoom_in(input.view)))

PairNext ==
    \/ Call(CallLeftRight)
    \/ Call(CallRightLeft)
    \/ Call(CallUpDown)
    \/ Call(CallZoomInOut)

SpecPair == PairInit /\ [][PairNext]_vars

(***************************************************************************)
(* BigFloat (astro_float) as Key::F2 uses it: a value is a record          *)
(* [k, m, e] as for f64, with a significand of exactly BigFloatPrecision   *)
(* bits, no bound on the exponent, and results truncated (RoundingMode::   *)
(* None).  Zero is Fin(0, 0).                                              *)
(***************************************************************************)
\* s * (a / b) * 2^ex cut to BigFloatPrecision bits (s in {-1, 1}, a >= 0, b > 0)
RECURSIVE BigFloatTruncate(_, _, _, _)
BigFloatTruncate(s, a, b, ex) ==
    IF a = 0 THEN Fin(0, 0)
    ELSE IF a \div b >= 2 ^ BigFloatPrecision
         THEN BigFloatTruncate(s, a, 2 * b, ex + 1)
    ELSE IF a \div b < 2 ^ (BigFloatPrecision - 1)
         THEN BigFloatTruncate(s, 2 * a, b, ex - 1)
    ELSE Fin(s * (a \div b), ex)

\* BigFloat::from_f64(f, p)
BigFloatFromF64(f) ==
    IF IsFin(f) THEN BigFloatTruncate(Sgn(f.m), Abs(f.m), 1, f.e) ELSE f

\* x.add(&y, p, RoundingMode::None); an operand too small to reach the last
\* kept bit of the other acts as a sticky bit below it
BigFloatAdd(x, y) ==
    IF IsNaN(x) \/ IsNaN(y) THEN NaN
    ELSE IF IsInf(x) THEN (IF IsInf(y) /\ y.m # x.m THEN NaN ELSE x)
    ELSE IF IsInf(y) THEN y
    ELSE IF x.m = 0 THEN y
    ELSE IF y.m = 0 THEN x
    ELSE IF x.e - y.e > BigFloatPrecision + 2 THEN
        LET n == 8 * x.m + Sgn(y.m) IN BigFloatTruncate(Sgn(n), Abs(n), 1, x.e - 3)
    ELSE IF y.e - x.e > BigFloatPrecision + 2 THEN
        LET n == 8 * y.m + Sgn(x.m) IN BigFloatTruncate(Sgn(n), Abs(n), 1, y.e - 3)
    ELSE LET e0 == Min(x.e, y.e)
             n == x.m * 2 ^ (x.e - e0) + y.m * 2 ^ (y.e - e0)
         IN  BigFloatTruncate(Sgn(n), Abs(n), 1, e0)

\* x.sub(&y, p, RoundingMode::None)
BigFloatSub(x, y) == BigFloatAdd(x, F64Neg(y))

\* x.div(&y, p, RoundingMode::None)
BigFloatDiv(x, y) ==
    IF IsNaN(x) \/ IsNaN(y) THEN NaN
    ELSE IF IsInf(x) THEN (IF IsInf(y) THEN NaN
                           ELSE Inf(x.m * (IF y.m < 0 THEN 0 - 1 ELSE 1)))
    ELSE IF IsInf(y) THEN Fin(0, 0)
    ELSE IF y.m = 0 THEN (IF x.m = 0 THEN NaN ELSE Inf(Sgn(x.m)))
    ELSE BigFloatTruncate(Sgn(x.m) * Sgn(y.m), Abs(x.m), Abs(y.m), x.e - y.e)

\* x.reciprocal(p, RoundingMode::None)
BigFloatReciprocal(x) == BigFloatDiv(BigFloatFromF64(IntToF64(1)), x)

\* x < y and x > y (PartialOrd: both false when either is NaN)
BigFloatLt(x, y) ==
    /\ ~IsNaN(x) /\ ~IsNaN(y)
    /\ IF IsInf(x) THEN x.m < 0 /\ ~(IsInf(y) /\ y.m < 0)
       ELSE IF IsInf(y) THEN y.m > 0
       ELSE BigFloatSub(x, y).m < 0
BigFloatGt(x, y) == BigFloatLt(y, x)

\* Key::F2: the ratio of 1 / zoom to the difference that adding 1 / zoom to
\* the plane coordinate of pixel (0, 0) makes
relative_difference(view, width, height) ==
    LET x == BigFloatFromF64(pixel_to_complex(view, <<width, height>>, <<0, 0>>).r)
        z == BigFloatFromF64(view.zoom)
        y == BigFloatAdd(x, BigFloatReciprocal(z))
        d == BigFloatSub(y, x)
    IN  BigFloatDiv(BigFloatReciprocal(z), d)

ub == BigFloatDiv(BigFloatFromF64(IntToF64(1001)), BigFloatFromF64(IntToF64(1000)))
lb == BigFloatDiv(BigFloatFromF64(IntToF64(1000)), BigFloatFromF64(IntToF64(1001)))

\* Key::F2: the verdict printed for the view
precision_audit(view, width, height) ==
    IF \/ BigFloatGt(relative_difference(view, width, height), ub)
       \/ BigFloatLt(relative_difference(view, width, height), lb)
    THEN "BAD!"
    ELSE "GOOD!"

\* the views and canvas widths the audit is called on
AuditViews ==
    {View(r, Zero, zoom, 30) :
        r \in {Ratio(0 - 3, 4), Ratio(1, 3), Zero},
        zoom \in {IntToF64(300), IntToF64(1), Ratio(1, 300), Fin(HalfP, 0 - ExpMin),
                  Fin(HalfP, 20), Fin(TwoP - 1, ExpMax + 1 - Precision),
                  Zero, Inf(1), NaN}}

AuditWidths == {2, 4, 200}

AuditInit ==
    /\ MainIdle
    /\ input \in [view : AuditViews, width : AuditWidths]
    /\ output = NoCall
    /\ par = NoCall

CallPrecisionAudit ==
    output' = Returned("precision_audit",
                       precision_audit(input.view, input.width, HEIGHT))

AuditNext == Call(CallPrecisionAudit)

SpecAudit == AuditInit /\ [][AuditNext]_vars

\* the points and iteration budgets the evaluators are called on
CoordinateInputs ==
    {Ratio(0 - 2, 1), Ratio(0 - 3, 4), Zero, Ratio(3, 32), Ratio(1, 2),
     IntToF64(1), Ratio(3, 2), IntToF64(2), IntToF64(3), IntToF64(40),
     Inf(1), NaN}

IterationInputs == {0, 1, 2, 30}

EvalInit ==
    /\ MainIdle
    /\ input \in [c : {Complex(r, i) : r \in CoordinateInputs,
                                      i \in CoordinateInputs},
                  iterations : IterationInputs]
    /\ output = NoCall
    /\ par = NoCall

CallCircle ==
    \/ /\ circle_overflows(input.c, input.iterations)
       /\ output' = Panicked("circle")
    \/ output' = Returned("circle", circle(input.c, input.iterations))

CallMandelbrotNaive ==
    output' = Returned("mandelbrot_naive",
                       mandelbrot_naive(input.c, input.iterations))

CallMandelbrotOptimized ==
    output' = Returned("mandelbrot_optimized",
                       mandelbrot_optimized(input.c, input.iterations))

EvalNext ==
    \/ Call(CallCircle)
    \/ Call(CallMandelbrotNaive)
    \/ Call(CallMandelbrotOptimized)

SpecEval == EvalInit /\ [][EvalNext]_vars

\* the zoom-box computation of main called on its own: views, canvas sizes
\* (odd and even) and corners on and around the canvas
BoxViews ==
    {InitialView,
     View(Ratio(1, 3), Ratio(0 - 1, 300), Ratio(1, 300), 5),
     View(Ratio(0 - 3, 4), Zero, Zero, 30),
     View(Ratio(1, 3), Zero, Inf(1), 30)}

BoxWidths == {3, 4}
BoxHeights == {2, 3}

\* positions in half pixels: the pixels 0, 0, 2, 3, 4 by 0, 1, 2, 3
BoxCorners == {<<hx, hy>> : hx \in {0, 1, 4, 6, 8}, hy \in {0, 2, 4, 6}}

BoxInit ==
    /\ MainIdle
    /\ input \in [view : BoxViews, width : BoxWidths, height : BoxHeights,
                  base_pos : BoxCorners, position : BoxCorners]
    /\ output = NoCall
    /\ par = NoCall

CallZoomBox ==
    \/ /\ zoom_box_overflows(input.base_pos, input.position)
       /\ output' = Panicked("zoom_box")
    \/ output' = Returned("zoom_box",
                          zoom_box(input.view, input.width, input.height,
                                   input.base_pos, input.position))

\* the same gesture with the corners exchanged
CallZoomBoxReversed ==
    \/ /\ zoom_box_overflows(input.position, input.base_pos)
       /\ output' = Panicked("zoom_box_reversed")
    \/ output' = Returned("zoom_box_reversed",
                          zoom_box(input.view, input.width, input.height,
                                   input.position, input.base_pos))

BoxNext ==
    \/ Call(CallZoomBox)
    \/ Call(CallZoomBoxReversed)

SpecBox == BoxInit /\ [][BoxNext]_vars

(***************************************************************************)
(* main.rs: draw_image called on its own, pixel by pixel. The items of the *)
(* parallel iterator are taken and finished by the workers of the rayon    *)
(* pool in any order and interleaving; collect() assembles the results in  *)
(* the order of the items.                                                 *)
(***************************************************************************)
\* fault model: the product taken with x outermost
iproduct_x_outermost(all_y, all_x) ==
    [k \in 1 .. (all_y * all_x) |-> <<(k - 1) % all_y, (k - 1) \div all_y>>]

\* iproduct!(all_y, all_x).collect_vec(): the pairs (y, x), y outermost
iproduct(all_y, all_x) ==
    [k \in 1 .. (all_y * all_x) |-> <<(k - 1) \div all_x, (k - 1) % all_x>>]

\* the closure of map, on the item (y, x)
map_pixel(view, width, height, f, item) ==
    z_to_color(Evaluate(f, pixel_to_complex(view, <<width, height>>,
                                            <<item[2], item[1]>>),
                        view.sharpness),
               view.sharpness)

\* whether the closure overflows on the item
map_pixel_overflows(view, width, height, f, item) ==
    /\ f = "CIRCLE"
    /\ circle_overflows(pixel_to_complex(view, <<width, height>>,
                                         <<item[2], item[1]>>),
                        view.sharpness)

\* flatten().collect(): the channels of the colors, in the order of the items
RECURSIVE flatten(_)
flatten(colors) ==
    IF colors = <<>> THEN <<>> ELSE Head(colors) \o flatten(Tail(colors))

\* ImageBuffer::from_raw(width, height, pixels).unwrap(): None (and a panic)
\* when the buffer is too short
from_raw_fits(width, height, pixels) == Len(pixels) >= width * height * 4

from_raw(width, height, pixels) ==
    [width |-> width, height |-> height, data |-> pixels]

\* ImageBuffer::get_pixel
get_pixel(image, x, y) ==
    SubSeq(image.data, 4 * (y * image.width + x) + 1,
           4 * (y * image.width + x) + 4)

\* the closure of map is a pure function of the item: what it does on each
\* item of the call, tabulated
closure_table(view, width, height, f, items) ==
    [k \in DOMAIN items |->
        [overflows |-> map_pixel_overflows(view, width, height, f, items[k]),
         color |-> map_pixel(view, width, height, f, items[k])]]

DrawViews ==
    {InitialView,
     View(Ratio(0 - 3, 4), Zero, IntToF64(1), 30),
     View(Ratio(0 - 3, 4), Zero, Ratio(1, 2), 2)}

DrawInit ==
    /\ MainIdle
    /\ input \in [view : DrawViews, width : 0 .. MaxDrawWidth,
                  height : 0 .. MaxDrawHeight, function : Functions]
    /\ output = NoCall
    /\ par = [items |-> iproduct(input.height, input.width),
              closure |-> closure_table(input.view, input.width, input.height,
                                        input.function,
                                        iproduct(input.height, input.width)),
              status |-> [k \in 1 .. (input.height * input.width) |-> "queued"],
              colors |-> [k \in 1 .. (input.height * input.width) |-> <<>>],
              finished |-> <<>>]

\* a worker takes the item k
WorkerTakes(k) ==
    /\ output = NoCall
    /\ par.status[k] = "queued"
    /\ par' = [par EXCEPT !.status[k] = "running"]
    /\ UNCHANGED output

\* a worker finishes the item k: the closure has returned its color, or it
\* has panicked, and the panic is the outcome of draw_image
WorkerFinishes(k) ==
    /\ output = NoCall
    /\ par.status[k] = "running"
    /\ \/ /\ par.closure[k].overflows
          /\ output' = Panicked("draw_image")
          /\ UNCHANGED par
       \/ /\ par' = [par EXCEPT
                       !.status[k] = "done",
                       !.colors[k] = par.closure[k].color,
                       !.finished = Append(par.finished, k)]
          /\ UNCHANGED output

\* a fault: collect does not wait for the workers
DrawReturnsEarly ==
    /\ output = NoCall
    /\ output' = Returned("draw_image",
                          from_raw(input.width, input.height,
                                   flatten(par.colors)))
    /\ UNCHANGED par

\* every item is done: collect, from_raw, return
DrawReturns ==
    /\ output = NoCall
    /\ \A k \in DOMAIN par.status : par.status[k] = "done"
    /\ LET pixels == flatten(par.colors)
       IN  IF from_raw_fits(input.width, input.height, pixels)
           THEN output' = Returned("draw_image",
                                   from_raw(input.width, input.height, pixels))
           ELSE output' = Panicked("draw_image")
    /\ UNCHANGED par

\* a step of a draw_image call
DrawStep(Step) == Step /\ UNCHANGED <<mainVars, input>>

DrawNext ==
    \/ DrawStep(\E k \in DOMAIN par.status : WorkerTakes(k))
    \/ DrawStep(\E k \in DOMAIN par.status : WorkerFinishes(k))
    \/ DrawStep(DrawReturns)

SpecDraw == DrawInit /\ [][DrawNext]_vars

\* the pool runs every item it was given and the calling thread is woken when
\* the last one is done: a step of the call that can be taken is taken
SpecDrawFair == SpecDraw /\ WF_vars(DrawNext)

\* draw_image as a function: the image a call returns when no pixel panics
draw_image(view, width, height, f) ==
    from_raw(width, height,
             flatten([k \in 1 .. (height * width) |->
                        map_pixel(view, width, height, f,
                                  iproduct(height, width)[k])]))

(***************************************************************************)
(* Properties                                                              *)
(***************************************************************************)
\* C1: after any sequence of controller events the navigation history holds
\* at least one view, and undo on a history of exactly one view leaves it as
\* it is (pop(views) is what the Backspace handler assigns to views)
C1_HistoryNeverEmpty ==
    /\ Len(views) >= 1
    /\ Len(views) = 1 => pop(views) = views

\* Backspace has been handled and the history is at its floor
C1_UndoneToFloor ==
    /\ e = KeyEvent("Backspace")
    /\ press_position = None
    /\ pc = "running"
    /\ views = <<InitialView>>

\* C2: the sharpness of every view of the history is at least 1, and the S
\* key clamps instead of faulting
C2_SharpnessAtLeastOne ==
    /\ \A k \in DOMAIN views : views[k].sharpness >= 1
    /\ ~(pc = "panicked" /\ e = KeyEvent("S"))

\* the left button is released with a press recorded, and the pixel of the
\* press and the pixel of the release coincide on at least one axis
DegenerateGesture ==
    /\ pc = "running"
    /\ e' = KeyEvent("MouseLeft")
    /\ press_position # None
    /\ \/ AsPixel(press_position[1])[1] = AsPixel(mouse_position)[1]
       \/ AsPixel(press_position[1])[2] = AsPixel(mouse_position)[2]

\* C3: a left press/release gesture whose corners coincide on at least one
\* axis is a plain recenter: it does not fault, and the view it pushes has
\* the zoom of the view before
C3_DegenerateGestureRecenters ==
    [][DegenerateGesture =>
          /\ pc' = "running"
          /\ Len(views') = Len(views) + 1
          /\ Last(views').zoom = Last(views).zoom]_vars

\* the step is the handling of an event that pushes a view: a pan or zoom
\* key, a left click or drag, a right click
PushingEvent ==
    /\ pc = "running"
    /\ pc' = "running"
    /\ \/ /\ e' \in {KeyEvent(key) :
                       key \in {"Left", "Right", "Up", "Down", "Z", "A"}}
          /\ press_position = None
       \/ /\ e' = KeyEvent("MouseLeft")
          /\ press_position # None
       \/ /\ e' = KeyEvent("MouseRight")
          /\ press_position = None

\* C4: a pushing navigation event followed by undo yields the history from
\* before the event: after the event Backspace is handled (no press is
\* recorded), and what its handler assigns, pop of the new history, is the
\* old history, view for view
C4_PushThenUndoRestores ==
    [][PushingEvent =>
          /\ press_position' = None
          /\ Len(views') = Len(views) + 1
          /\ pop(views') = views]_vars

\* Backspace has undone the push of a third view
C4_UndoneAfterPush ==
    /\ e = KeyEvent("Backspace")
    /\ press_position = None
    /\ Len(views) = MaxUndoHistory - 1

\* the fields a transform of View targets
Targets(op) ==
    CASE op \in {"step_left", "step_right"} -> {"r"}
      [] op \in {"step_up", "step_down"} -> {"i"}
      [] op \in {"step_zoom_in", "step_zoom_out", "zoom_by"} -> {"zoom"}
      [] op \in {"sharpen", "unsharpen"} -> {"sharpness"}
      [] op = "center_on" -> {"r", "i"}

\* the view returned has the fields of the argument, but for the targets
FrameKept ==
    (output.op # "none" /\ ~output.panicked) =>
        \A fld \in {"r", "i", "zoom", "sharpness"} \ Targets(output.op) :
            output.value[fld] = input.view[fld]

\* C5: every transform of View leaves its argument as it is and returns a
\* view that differs from it in the targeted field only
C5_TransformsKeepFrame == [][input' = input /\ FrameKept']_vars

\* center_on has returned a view with another r and another i
C5_Recentered ==
    /\ output.op = "center_on"
    /\ output.value.r # input.view.r
    /\ output.value.i # input.view.i
    /\ output.value.zoom = input.view.zoom

\* the color draw_image is to hold at the pixel (x, y)
ColorAt(x, y) ==
    z_to_color(Evaluate(input.function,
                        pixel_to_complex(input.view,
                                         <<input.width, input.height>>,
                                         <<x, y>>),
                        input.view.sharpness),
               input.view.sharpness)

\* C6: whatever the order the workers take and finish the pixels in, the
\* buffer draw_image returns has width * height pixels, holds at (x, y) the
\* color of the pixel (x, y), and is the same for the same view and size;
\* draw_image returns unless the evaluator overflows on a pixel
C6_BufferByCoordinate ==
    output.op = "draw_image" =>
        IF output.panicked
        THEN \E k \in DOMAIN par.items :
                map_pixel_overflows(input.view, input.width, input.height,
                                    input.function, par.items[k])
        ELSE /\ Len(output.value.data) = 4 * input.width * input.height
             /\ \A x \in 0 .. (input.width - 1),
                   y \in 0 .. (input.height - 1) :
                   get_pixel(output.value, x, y) = ColorAt(x, y)
             /\ output.value = draw_image(input.view, input.width,
                                          input.height, input.function)

\* draw_image has returned an image of several colors whose last pixel was
\* finished first
C6_ReturnedOutOfOrder ==
    /\ output.op = "draw_image"
    /\ ~output.panicked
    /\ Len(par.finished) > 1
    /\ par.finished[1] = Len(par.finished)
    /\ \E x \in 0 .. (input.width - 1), y \in 0 .. (input.height - 1) :
          get_pixel(output.value, x, y) # get_pixel(output.value, 0, 0)

\* C7: mandelbrot_naive and mandelbrot_optimized return the same integer for
\* every point and every iteration budget
C7_NaiveIsOptimized ==
    output.op = "mandelbrot_naive" =>
        output.value = mandelbrot_optimized(input.c, input.iterations)

\* C8: circle returns -1 when |c| <= 1 and otherwise iterations - floor(|c|)
\* as a signed integer, without wrapping and without faulting (|c| as circle
\* computes it, on the points with finite coordinates)
C8_CircleValue ==
    (output.op = "circle" /\ IsFin(input.c.r) /\ IsFin(input.c.i)) =>
        /\ ~output.panicked
        /\ output.value =
              IF F64Le(circle_d(input.c), IntToF64(1)) THEN 0 - 1
              ELSE input.iterations
                     - F64ToUnsigned(F64Floor(circle_d(input.c)), U32Max)

\* C9: handling F1 or F2 leaves the navigation history, the drag state and
\* the base canvas as they are
C9_DiagnosticKeysKeepState ==
    [][e' \in {KeyEvent("F1"), KeyEvent("F2")} =>
          UNCHANGED <<views, press_position, base_canvas>>]_vars

\* F2 has been handled on a history of several views
C9_AuditedDeepHistory ==
    /\ e = KeyEvent("F2")
    /\ press_position = None
    /\ Len(views) > 1

\* C10: every view of the navigation history has zoom > 0
C10_ZoomPositive == \A k \in DOMAIN views : F64Gt(views[k].zoom, Zero)

\* the two corners of the gesture called on, as pixels
Corner1 == AsPixel(input.base_pos)
Corner2 == AsPixel(input.position)

\* the gesture has an extent on both axes
ProperBox == Corner1[1] # Corner2[1] /\ Corner1[2] # Corner2[2]

\* the gesture selects the whole canvas, (0, 0) to (W, H) in either order
FullCanvasBox ==
    {Corner1, Corner2} = {<<0, 0>>, <<input.width, input.height>>}

\* center_on the integer midpoint, zoom_by the smaller of W / |x1 - x2| and
\* H / |y1 - y2|
MidpointBox ==
    LET fx == Ratio(input.width, Abs(Corner1[1] - Corner2[1]))
        fy == Ratio(input.height, Abs(Corner1[2] - Corner2[2]))
        mid == <<(Corner1[1] + Corner2[1]) \div 2,
                 (Corner1[2] + Corner2[2]) \div 2>>
    IN  zoom_by(center_on(input.view,
                          pixel_to_complex(input.view,
                                           <<input.width, input.height>>,
                                           mid)),
                IF F64Lt(fy, fx) THEN fy ELSE fx)

\* the zoom box returned is the one of the midpoint and the smaller factor,
\* whichever corner is the press position
BoxByFormula ==
    (output.op \in {"zoom_box", "zoom_box_reversed"} /\ ProperBox) =>
        /\ ~output.panicked
        /\ output.value = MidpointBox

\* the full canvas selected on a view of zoom > 0 keeps the view
FullCanvasKeepsView ==
    (/\ output.op \in {"zoom_box", "zoom_box_reversed"}
     /\ FullCanvasBox
     /\ F64Gt(input.view.zoom, Zero)) => output.value = input.view

C12_OppositeStepsCancel ==
    (/\ output.op # "none"
     /\ IsFin(input.view.zoom)
     /\ F64Gt(input.view.zoom, Zero)) => output.value = input.view

\* C13: the precision audit reports "BAD!" exactly when relative_difference
\* lies outside [lb, ub] = [1000/1001, 1001/1000], and "GOOD!" otherwise
InsideBounds(x) == ~IsNaN(x) /\ ~BigFloatLt(x, lb) /\ ~BigFloatGt(x, ub)

C13_AuditFlagsOutside ==
    output.op = "precision_audit" =>
        (output.value = "BAD!" <=>
            ~InsideBounds(relative_difference(input.view, input.width, HEIGHT)))

\* C14: a pixel outside [0, width) x [0, height) handed to pixel_to_complex
\* by a mouse release is rejected: the program fails and no view is made of it
PixelUsed ==
    /\ pc = "running"
    /\ e'.kind = "release"
    /\ \/ e'.button = "MouseLeft" /\ press_position = Some(mouse_position)
       \/ e'.button = "MouseRight" /\ press_position = None

C14_OutOfRangePixelRejected ==
    [][(PixelUsed /\ ~InImage(AsPixel(mouse_position), WIDTH, HEIGHT))
          => (pc' = "panicked" /\ views' = views)]_vars

\* C15: every navigation key handled, sharpen (X) and unsharpen (S) included,
\* pushes exactly one view: the history grows by one and the views it held,
\* the former current one included, stay in place
NavigationHandled ==
    /\ pc = "running"
    /\ pc' = "running"
    /\ press_position = None
    /\ e'.kind = "release"
    /\ e'.button \in {"Left", "Right", "Up", "Down", "Z", "A", "X", "S"}

C15_NavigationPushesOne ==
    [][NavigationHandled =>
          /\ Len(views') = Len(views) + 1
          /\ SubSeq(views', 1, Len(views)) = views]_vars

\* C16: the value circle or mandelbrot_optimized hands to the color mapping
\* is -1 or a step index in 0 .. iterations - 1, and mandelbrot_optimized
\* returns -1 exactly when no step within the budget crosses the escape
\* threshold and otherwise the index of the first step that does
\* the steps from i on that cross the escape threshold when the recurrence of
\* mandelbrot_optimized runs through the whole budget, (x, y) the value before
\* step i
RECURSIVE CrossingSteps(_, _, _, _, _)
CrossingSteps(x, y, c, i, iterations) ==
    IF i >= iterations THEN {}
    ELSE LET y1 == F64Add(F64Mul(F64Add(x, x), y), c.i)
             x1 == F64Add(F64Sub(F64Mul(x, x), F64Mul(y, y)), c.r)
             crossed == F64Gt(F64Add(F64Mul(x1, x1), F64Mul(y1, y1)),
                              IntToF64(4))
         IN  (IF crossed THEN {i} ELSE {})
                \cup CrossingSteps(x1, y1, c, i + 1, iterations)

FirstCrossing(c, iterations) ==
    LET crossing == CrossingSteps(Zero, Zero, c, 0, iterations)
    IN  IF crossing = {} THEN 0 - 1
        ELSE CHOOSE i \in crossing : \A j \in crossing : i <= j

EscapeResults(iterations) == {0 - 1} \cup (0 .. iterations - 1)

OptimizedFirstCrossing ==
    output.op = "mandelbrot_optimized" =>
        output.value = FirstCrossing(input.c, input.iterations)

C16_EscapeResultInRange ==
    /\ output.op \in {"circle", "mandelbrot_optimized"} =>
          /\ ~output.panicked
          /\ output.value \in EscapeResults(input.iterations)
    /\ OptimizedFirstCrossing

\* C17: a draw_image call is a fork-join batch: it always ends, and when it
\* returns an image every pixel of the frame has been computed and is in
\* the image (the caller sees no partially filled buffer)
AllPixelsComputed ==
    /\ \A k \in DOMAIN par.status : par.status[k] = "done"
    /\ Len(par.finished) = input.width * input.height
    /\ Len(output.value.data) = 4 * input.width * input.height
    /\ \A k \in DOMAIN par.items :
          get_pixel(output.value, par.items[k][2], par.items[k][1])
             = par.colors[k]
    /\ \A k \in DOMAIN par.colors : Len(par.colors[k]) = 4

C17_RenderIsForkJoin ==
    /\ []((output.op = "draw_image" /\ ~output.panicked) => AllPixelsComputed)
    /\ <>(output.op = "draw_image")

\* draw_image has returned a frame of MaxDrawWidth by MaxDrawHeight pixels
C17_FullFrameReturned ==
    /\ output.op = "draw_image"
    /\ ~output.panicked
    /\ Len(par.items) = MaxDrawWidth * MaxDrawHeight
    /\ Len(output.value.data) = 4 * MaxDrawWidth * MaxDrawHeight

\* C18: after every handled event the base canvas is the render of the last
\* view of the history (so an event that changes the history, undo included,
\* has drawn the new last view, and one that leaves the history alone has
\* left the base canvas alone)
C18_BaseCanvasIsLastView ==
    pc # "panicked" => base_canvas = draw(Last(views))

\* a gesture has pushed a view and undo has returned to the first view
C18_UndoneAfterGesture ==
    /\ e = KeyEvent("Backspace")
    /\ press_position = None
    /\ overlay.painted # {}
    /\ Len(views) = 1
    /\ base_canvas = draw(InitialView)

\* C19: while press_position is set, every event but the release of the left
\* button (key releases and right button releases among them) leaves the
\* history and the base canvas as they are, and a release of the left button
\* that is handled clears press_position
LeftReleased == e'.kind = "release" /\ e'.button = "MouseLeft"

C19_DragBlocksOtherEvents ==
    [][(pc = "running" /\ press_position # None) =>
          /\ ~LeftReleased => UNCHANGED <<views, base_canvas, press_position>>
                                 \/ (e'.kind = "press" /\
                                        UNCHANGED <<views, base_canvas>>)
          /\ (LeftReleased /\ pc' = "running") => press_position' = None]_vars

\* Backspace was released during a drag on a history of MaxHistory views
C19_UndoIgnoredInDrag ==
    /\ press_position # None
    /\ e = KeyEvent("Backspace")
    /\ Len(views) = MaxHistory

====
